---- MODULE Spec2Model ----
(***************************************************************************)
(* Model of src/app/main.py: the desktop orchestrator.                     *)
(*                                                                         *)
(* One background thread runs start_desktop_environment (the bootstrap);   *)
(* the main thread sleeps and then serves /api/status, whose handler runs  *)
(* check_desktop_status (the probe).  The operating system contributes the *)
(* process table, the asynchronous effect of the pkill commands, process   *)
(* exits, and the file /tmp/vnc_passwd.                                    *)
(*                                                                         *)
(* A string is modelled as a sequence of atoms, so that Python's `+` and   *)
(* f-string interpolation are sequence concatenation and a substring test  *)
(* is membership of an atom.  A command line is a sequence of strings.     *)
(***************************************************************************)
EXTENDS Integers, Sequences, FiniteSets, TLC

VARIABLES
    config,             \* VNC_PASSWORD, RESOLUTION, VNC_PORT read at import
    run,                \* number of the orchestrator lifetime (1, 2, ...)
    mainPc,             \* position of the main thread in __main__
    pc,                 \* position of the bootstrap thread
    table,              \* OS process table: live processes started by us
    passwd,             \* the file /tmp/vnc_passwd
    xvfb_process,       \* the four module globals (a process or None)
    xfce_process,
    x11vnc_process,
    websockify_process,
    log,                \* history: what the bootstrap of this lifetime did
    probePc,            \* position of the request thread in the probe
    probeRc,            \* return codes of the pgrep calls made so far
    probeAfterBoot,     \* history: the probe began after the bootstrap was over
    snapshot,           \* what the last finished probe returned
    seen                \* history: what the process table offered to the
                        \* lookups of the last probe, from its start on

globals == <<xvfb_process, xfce_process, x11vnc_process, websockify_process>>
prober  == <<probePc, probeRc, probeAfterBoot, snapshot>>
vars    == <<config, run, mainPc, pc, table, passwd, globals, log, prober, seen>>

\* How many times the orchestrator is started over the life of the machine.
MaxRuns == 2

\* Python's None, as a record so that it compares with process records.
None == [none |-> TRUE]

\* ---------------------------------------------------------------- roles --
Roles == {"Xvfb", "startxfce4", "x11vnc", "websockify"}

\* ------------------------------------------------------- configuration --
\* RESOLUTION and VNC_PORT are spelled character by character.
DefaultConfig ==
    [VNC_PASSWORD |-> <<"huggingface">>,
     RESOLUTION   |-> <<"1", "2", "8", "0", "x", "7", "2", "0">>,
     VNC_PORT     |-> <<"5", "9", "0", "0">>]

CustomConfig ==
    [VNC_PASSWORD |-> <<"s3cret">>,
     RESOLUTION   |-> <<"1", "9", "2", "0", "x", "1", "0", "8", "0">>,
     VNC_PORT     |-> <<"5", "9", "0", "1">>]

Configs == {DefaultConfig, CustomConfig}

\* os.environ.get returns whatever the environment holds.
MalformedConfig ==
    [VNC_PASSWORD |-> <<"huggingface">>,
     RESOLUTION   |-> <<"w", "i", "d", "e">>,
     VNC_PORT     |-> <<"v", "n", "c">>]

Environments == Configs \cup {MalformedConfig}

password_file == <<"/tmp/", "vnc_passwd">>

\* ------------------------------------------------------- command lines --
XvfbArgv(cfg) ==
    << <<"Xvfb">>, <<":1">>, <<"-screen">>, <<"0">>,
       cfg.RESOLUTION \o <<"x24">>, <<"-ac">>, <<"+extension">>, <<"GLX">> >>

XfceArgv == << <<"startxfce4">> >>

\* A window session pointed at display :0.
XfceEnvDisplayZero == <<":0">>

XfceEnvDisplay == <<":1">>

\* env = os.environ.copy(); env['DISPLAY'] = ':1' -- the overrides only.
XfceEnv == {<<"DISPLAY", XfceEnvDisplay>>}

X11vncArgv(cfg) ==
    << <<"x11vnc">>, <<"-display">>, <<":1">>, <<"-localhost">>,
       <<"-forever">>, <<"-shared">>, <<"-rfbport">>, cfg.VNC_PORT,
       <<"-rfbauth">>, password_file, <<"-o">>,
       <<"/tmp/", "x11vnc", ".log">>, <<"-bg">> >>

WebsockifyArgv ==
    << <<"websockify">>, <<"--web">>, <<"/home/user/novnc">>, <<"6080">>,
       <<"localhost:", "5", "9", "0", "0">> >>

\* run_command(command, shell=True) hands the string to /bin/sh -c.
PkillArgv(name) == << <<"sh">>, <<"-c">>, <<"pkill", " -9 ", name>> >>

RoleArgv(role, cfg) ==
    CASE role = "Xvfb"       -> XvfbArgv(cfg)
      [] role = "startxfce4" -> XfceArgv
      [] role = "x11vnc"     -> X11vncArgv(cfg)
      [] role = "websockify" -> WebsockifyArgv

\* The environment a role is given beyond the orchestrator's own.
RoleEnv(role) == IF role = "startxfce4" THEN XfceEnv ELSE {}

\* A process of the table: its command line, the environment variables set
\* for it, and the lifetime that began it.
Proc(argv, env, r) == [argv |-> argv, env |-> env, run |-> r]

IsKiller(p)  == p.argv[1] = <<"sh">>
KillTarget(p) == p.argv[3][3]
IsManaged(p) == ~IsKiller(p)
RoleOf(p)    == p.argv[1][1]

\* ---------------------------------------------------- process matching --
Atoms(str) == {str[i] : i \in 1..Len(str)}

\* The atoms of the whole command line (/proc/<pid>/cmdline).
CmdlineAtoms(p) == UNION {Atoms(p.argv[i]) : i \in 1..Len(p.argv)}

\* pkill <name>: the pattern is searched in the process name only.
PkillMatches(p, name) == name \in Atoms(p.argv[1])

\* pgrep -f <name>: the pattern is searched in the full command line.
PgrepFMatches(p, name) == name \in CmdlineAtoms(p)

Live(role) == {p \in table : IsManaged(p) /\ RoleOf(p) = role}

\* ------------------------------------------------- the credentials file --
\* Permission bits are named as ls prints them: user, group, other.
S_0600 == {"ur", "uw"}

\* What open(..., 'w') gives a file it creates: 0666 masked by umask 022.
CreateMode == {"ur", "uw", "gr", "or"}

OwnerOnly(mode) == mode \subseteq {"ur", "uw", "ux"}

NoFile ==
    [exists |-> FALSE, owner |-> "nobody", mode |-> {}, content |-> << >>]

\* /tmp is world-writable: another user may have left a file of that name.
ForeignFile(mode) ==
    [exists |-> TRUE, owner |-> "other", mode |-> mode, content |-> <<"stale">>]

InitFiles ==
    {NoFile, ForeignFile({"ur", "uw", "gr", "or"}),
     ForeignFile({"ur", "uw", "gr", "gw", "or", "ow"})}

CanWrite(f) == IF f.owner = "self" THEN "uw" \in f.mode ELSE "ow" \in f.mode

\* open(password_file, 'w'): create or truncate; a file that exists keeps
\* its owner and mode.
OpenForWrite(f) ==
    IF f.exists
    THEN [f EXCEPT !.content = << >>]
    ELSE [exists |-> TRUE, owner |-> "self", mode |-> CreateMode,
          content |-> << >>]

\* f.write(VNC_PASSWORD + "\n") and the close that flushes it.
WriteSecret(f, cfg) == [f EXCEPT !.content = cfg.VNC_PASSWORD \o <<"\n">>]

\* os.chmod(password_file, 0o600): only the owner may change the mode.
CanChmod(f) == f.exists /\ f.owner = "self"

Chmod(f, mode) == [f EXCEPT !.mode = mode]

\* ------------------------------------------------- the bootstrap thread --
\* The statements of the start_* functions, in source order.
Stmt(op, role) == [op |-> op, role |-> role]

start_xvfb ==
    << Stmt("reap", "Xvfb"), Stmt("sleep", "Xvfb"),
       Stmt("spawn", "Xvfb"), Stmt("settle", "Xvfb") >>

start_xfce ==
    << Stmt("spawn", "startxfce4"), Stmt("settle", "startxfce4") >>

start_vnc_server ==
    << Stmt("open", "x11vnc"), Stmt("write", "x11vnc"),
       Stmt("chmod", "x11vnc"),
       Stmt("reap", "x11vnc"), Stmt("sleep", "x11vnc"),
       Stmt("spawn", "x11vnc"), Stmt("settle", "x11vnc") >>

start_websockify ==
    << Stmt("reap", "websockify"), Stmt("sleep", "websockify"),
       Stmt("spawn", "websockify"), Stmt("settle", "websockify") >>

\* A bootstrap that starts the window session before the display server.
start_desktop_environment_xfce_first ==
    start_xfce \o start_xvfb \o start_vnc_server \o start_websockify

start_desktop_environment ==
    start_xvfb \o start_xfce \o start_vnc_server \o start_websockify

\* pc is the index of the next statement; three positions are not statements.
NotStarted == 0
Returned   == Len(start_desktop_environment) + 1
Died       == 0 - 1

Running == pc \in 1..Len(start_desktop_environment)

Cur == start_desktop_environment[pc]

At(op) == Running /\ Cur.op = op

\* The first statement after the try/except of start_vnc_server.
AfterTry ==
    CHOOSE i \in 1..Len(start_desktop_environment) :
        start_desktop_environment[i] = Stmt("reap", "x11vnc")

Event(ev, role) == [ev |-> ev, role |-> role]

Events(ev) == {i \in 1..Len(log) : log[i].ev = ev}

Did(ev, role) == \E i \in 1..Len(log) : log[i] = Event(ev, role)

\* ------------------------------------------- what a probe can observe --
\* The names check_desktop_status looks up, in the order of its pgrep calls.
ProbeNames == <<"Xvfb", "x11vnc", "websockify">>

\* What the three lookups would answer, were they all made on the table t.
Answers(t) ==
    [i \in 1..Len(ProbeNames) |->
        \E p \in t : PgrepFMatches(p, ProbeNames[i])]

\* The value of seen when the tables are not recorded.
Unobserved == << >>

\* The table becomes t: recorded if a probe is under way and recording is on.
Observed(t) ==
    IF probePc = "pgrep" /\ Unobserved \notin seen
    THEN seen \cup {Answers(t)}
    ELSE seen

\* -------------------------------------------------------------- start --
\* The state after the module is imported, for a choice of environments and
\* of contents of /tmp.
ImportedOn(environments, files, tables) ==
    /\ config \in environments
    /\ run = 1
    /\ mainPc = "init"
    /\ pc = NotStarted
    /\ table \in tables
    /\ passwd \in files
    /\ xvfb_process = None
    /\ xfce_process = None
    /\ x11vnc_process = None
    /\ websockify_process = None
    /\ log = << >>
    /\ probePc = "idle"
    /\ probeRc = << >>
    /\ probeAfterBoot = FALSE
    /\ snapshot = None

\* The same on a machine where none of the four programs is running.
Imported(environments, files) ==
    ImportedOn(environments, files, {{}}) /\ seen = {Unobserved}

Init == Imported(Configs, InitFiles)

\* ------------------------------------------------------ the main thread --
\* __main__: desktop_thread.start().
MainStartThread ==
    /\ mainPc = "init"
    /\ mainPc' = "sleep"
    /\ pc' = 1
    /\ UNCHANGED <<config, run, table, passwd, globals, log, prober, seen>>

\* __main__: time.sleep(5) is over and app.run() accepts requests.
MainServe ==
    /\ mainPc = "sleep"
    /\ mainPc' = "serving"
    /\ UNCHANGED <<config, run, pc, table, passwd, globals, log, prober,
                   seen>>

\* run_command without its try/except: the bootstrap thread dies when the
\* kill command cannot be started.
ReapFatal ==
    /\ At("reap")
    /\ \E started \in BOOLEAN :
        IF started
        THEN /\ table' = table \cup {Proc(PkillArgv(Cur.role), {}, run)}
             /\ log' = Append(log, Event("reap", Cur.role))
             /\ pc' = pc + 1
        ELSE /\ table' = table
             /\ log' = Append(log, Event("reap_failed", Cur.role))
             /\ pc' = Died
    /\ seen' = Observed(table')
    /\ UNCHANGED <<config, run, mainPc, passwd, globals, prober>>

\* --------------------------------------------------- bootstrap statements --
\* run_command("pkill -9 <name>", wait=False, shell=True): the shell is
\* started and not waited for; an exception of Popen is caught and the
\* function returns False.
Reap ==
    /\ At("reap")
    /\ \E started \in BOOLEAN :
        IF started
        THEN /\ table' = table \cup {Proc(PkillArgv(Cur.role), {}, run)}
             /\ log' = Append(log, Event("reap", Cur.role))
        ELSE /\ table' = table
             /\ log' = Append(log, Event("reap_failed", Cur.role))
    /\ pc' = pc + 1
    /\ seen' = Observed(table')
    /\ UNCHANGED <<config, run, mainPc, passwd, globals, prober>>

\* A bootstrap that waits, where the code sleeps, until the kill command it
\* started has exited (run_command with wait=True).
SleepUntilKilled ==
    /\ At("sleep")
    /\ \A p \in table : IsManaged(p)
    /\ pc' = pc + 1
    /\ UNCHANGED <<config, run, mainPc, table, passwd, globals, log, prober,
                   seen>>

\* time.sleep(1) between the kill and the spawn.
Sleep ==
    /\ At("sleep")
    /\ pc' = pc + 1
    /\ UNCHANGED <<config, run, mainPc, table, passwd, globals, log, prober,
                   seen>>

\* The assignment `<role>_process = subprocess.Popen(...)`.
SetGlobal(role, p) ==
    /\ xvfb_process' = IF role = "Xvfb" THEN p ELSE xvfb_process
    /\ xfce_process' = IF role = "startxfce4" THEN p ELSE xfce_process
    /\ x11vnc_process' = IF role = "x11vnc" THEN p ELSE x11vnc_process
    /\ websockify_process' =
           IF role = "websockify" THEN p ELSE websockify_process

\* subprocess.Popen([...]) of a role starts the process.
SpawnOk ==
    /\ At("spawn")
    /\ LET p == Proc(RoleArgv(Cur.role, config), RoleEnv(Cur.role), run)
       IN  /\ table' = table \cup {p}
           /\ SetGlobal(Cur.role, p)
    /\ log' = Append(log, Event("spawn", Cur.role))
    /\ pc' = pc + 1
    /\ seen' = Observed(table')
    /\ UNCHANGED <<config, run, mainPc, passwd, prober>>

\* subprocess.Popen([...]) raises (executable missing, permission error):
\* nothing catches it, the thread ends.
SpawnFails ==
    /\ At("spawn")
    /\ log' = Append(log, Event("spawn_failed", Cur.role))
    /\ pc' = Died
    /\ UNCHANGED <<config, run, mainPc, table, passwd, globals, prober,
                   seen>>

\* time.sleep(n) after the spawn, then `return True`.
Settle ==
    /\ At("settle")
    /\ log' = Append(log, Event("settled", Cur.role))
    /\ pc' = pc + 1
    /\ UNCHANGED <<config, run, mainPc, table, passwd, globals, prober,
                   seen>>

\* open(password_file, 'w'); PermissionError goes to the except clause.
OpenPasswd ==
    /\ At("open")
    /\ IF passwd.exists /\ ~CanWrite(passwd)
       THEN /\ passwd' = passwd
            /\ log' = Append(log, Event("cred_error", Cur.role))
            /\ pc' = AfterTry
       ELSE /\ passwd' = OpenForWrite(passwd)
            /\ log' = log
            /\ pc' = pc + 1
    /\ UNCHANGED <<config, run, mainPc, table, globals, prober, seen>>

\* f.write(VNC_PASSWORD + "\n") and the end of the with block.
WritePasswd ==
    /\ At("write")
    /\ passwd' = WriteSecret(passwd, config)
    /\ pc' = pc + 1
    /\ UNCHANGED <<config, run, mainPc, table, globals, log, prober, seen>>

\* os.chmod(password_file, 0o600); PermissionError goes to the except clause.
ChmodPasswd ==
    /\ At("chmod")
    /\ IF CanChmod(passwd)
       THEN /\ passwd' = Chmod(passwd, S_0600)
            /\ log' = Append(log, Event("cred_ok", Cur.role))
            /\ pc' = pc + 1
       ELSE /\ passwd' = passwd
            /\ log' = Append(log, Event("cred_error", Cur.role))
            /\ pc' = AfterTry
    /\ UNCHANGED <<config, run, mainPc, table, globals, prober, seen>>

\* ------------------------------------------------- the operating system --
\* A pkill started by run_command scans the process table, sends SIGKILL to
\* every process whose name matches, and exits.
KillTakesEffect ==
    \E k \in table :
        /\ IsKiller(k)
        /\ table' = {p \in table :
                        p # k /\ ~PkillMatches(p, KillTarget(k))}
        /\ seen' = Observed(table')
        /\ UNCHANGED <<config, run, mainPc, pc, passwd, globals, log, prober>>

\* pkill may not signal a process of another user (EPERM): the kill command
\* ends and the process stays.  A process with run = 0 was on the machine
\* before the first lifetime, its owner is not known.
IsStale(p) == IsManaged(p) /\ p.run = 0

KillDenied ==
    \E k \in table :
        /\ IsKiller(k)
        /\ \E p \in table : IsStale(p) /\ PkillMatches(p, KillTarget(k))
        /\ table' = table \ {k}
        /\ seen' = Observed(table')
        /\ UNCHANGED <<config, run, mainPc, pc, passwd, globals, log, prober>>

\* KillTakesEffect in its two steps.  "sh -c 'pkill -9 <name>'" first signals
\* the processes of that name, and is itself in the process table until it
\* has exited.
PkillSignals ==
    \E k \in table :
        /\ IsKiller(k)
        /\ ~Did("signalled", KillTarget(k))
        /\ table' = {p \in table : ~PkillMatches(p, KillTarget(k))}
        /\ log' = Append(log, Event("signalled", KillTarget(k)))
        /\ seen' = Observed(table')
        /\ UNCHANGED <<config, run, mainPc, pc, passwd, globals, prober>>

PkillExits ==
    \E k \in table :
        /\ IsKiller(k)
        /\ Did("signalled", KillTarget(k))
        /\ table' = table \ {k}
        /\ seen' = Observed(table')
        /\ UNCHANGED <<config, run, mainPc, pc, passwd, globals, log, prober>>

\* A managed process ends on its own (crash, lost display, port in use).
ProcessExit ==
    \E p \in table :
        /\ IsManaged(p)
        /\ table' = table \ {p}
        /\ seen' = Observed(table')
        /\ UNCHANGED <<config, run, mainPc, pc, passwd, globals, log, prober>>

\* The orchestrator is started again (container restart, manual rerun) after
\* its bootstrap ended and the kill commands it started have finished; the
\* managed processes run in sessions of their own (preexec_fn=os.setsid) and
\* outlive it.
Restart ==
    /\ pc \in {Returned, Died}
    /\ \A p \in table : IsManaged(p)
    /\ run < MaxRuns
    /\ run' = run + 1
    /\ mainPc' = "init"
    /\ pc' = NotStarted
    /\ xvfb_process' = None
    /\ xfce_process' = None
    /\ x11vnc_process' = None
    /\ websockify_process' = None
    /\ log' = << >>
    /\ probePc' = "idle"
    /\ probeRc' = << >>
    /\ probeAfterBoot' = FALSE
    /\ snapshot' = None
    /\ UNCHANGED <<config, table, passwd, seen>>

\* ------------------------------------------------------------ the probe --
\* Exit status of `pgrep -f <name>`: 0 some process matched, 1 none matched,
\* 3 fatal error (the process table could not be read).
PgrepFatal == 3

PgrepReturnCodes(name) ==
    {IF \E p \in table : PgrepFMatches(p, name) THEN 0 ELSE 1, PgrepFatal}

\* The dictionary check_desktop_status returns when no call raised.
StatusDict(rcs) ==
    LET xvfb_running == rcs[1] = 0
        vnc_running  == rcs[2] = 0
        ws_running   == rcs[3] = 0
    IN  [xvfb       |-> xvfb_running,
         vnc        |-> vnc_running,
         websockify |-> ws_running,
         ready      |-> xvfb_running /\ vnc_running /\ ws_running]

ErrorDict == [error |-> "exception"]

\* The key under which the dictionary reports a role; startxfce4 has none.
RoleKey == [Xvfb |-> "xvfb", x11vnc |-> "vnc", websockify |-> "websockify"]

IsStatus(s) == "ready" \in DOMAIN s

\* The bootstrap thread has ended, by return or by an exception, and the kill
\* commands it started have finished: nothing touches the process table any
\* more but the managed processes themselves.
BootstrapOver == pc \in {Returned, Died} /\ \A p \in table : IsManaged(p)

\* A status handler that launches the desktop again when the bootstrap is over.
ApiStatusBootstraps ==
    /\ mainPc = "serving"
    /\ probePc = "idle"
    /\ probePc' = "pgrep"
    /\ probeRc' = << >>
    /\ probeAfterBoot' = BootstrapOver
    /\ snapshot' = None
    /\ pc' = IF pc \in {Returned, Died} THEN 1 ELSE pc
    /\ log' = IF pc \in {Returned, Died} THEN << >> ELSE log
    /\ seen' = IF Unobserved \in seen THEN seen ELSE {Answers(table)}
    /\ UNCHANGED <<config, run, mainPc, table, passwd, globals>>

\* A request for /api/status arrives: api_status calls check_desktop_status.
ApiStatus ==
    /\ mainPc = "serving"
    /\ probePc = "idle"
    /\ probePc' = "pgrep"
    /\ probeRc' = << >>
    /\ probeAfterBoot' = BootstrapOver
    /\ snapshot' = None
    /\ seen' = IF Unobserved \in seen THEN seen ELSE {Answers(table)}
    /\ UNCHANGED <<config, run, mainPc, pc, table, passwd, globals, log>>

\* A probe whose lookup signals the processes it finds (pkill for pgrep).
PgrepKills ==
    /\ probePc = "pgrep"
    /\ \E rc \in PgrepReturnCodes(ProbeNames[Len(probeRc) + 1]) :
        LET rcs == Append(probeRc, rc)
        IN  /\ probeRc' = rcs
            /\ IF Len(rcs) = Len(ProbeNames)
               THEN /\ snapshot' = StatusDict(rcs)
                    /\ probePc' = "idle"
               ELSE /\ snapshot' = snapshot
                    /\ probePc' = "pgrep"
    /\ table' = {p \in table :
                    ~PgrepFMatches(p, ProbeNames[Len(probeRc) + 1])}
    /\ seen' = Observed(table')
    /\ UNCHANGED <<config, run, mainPc, pc, passwd, globals, log,
                   probeAfterBoot>>

\* One subprocess.run(["pgrep", "-f", name]); after the third the dictionary
\* is built and returned through jsonify.
Pgrep ==
    /\ probePc = "pgrep"
    /\ \E rc \in PgrepReturnCodes(ProbeNames[Len(probeRc) + 1]) :
        LET rcs == Append(probeRc, rc)
        IN  /\ probeRc' = rcs
            /\ IF Len(rcs) = Len(ProbeNames)
               THEN /\ snapshot' = StatusDict(rcs)
                    /\ probePc' = "idle"
               ELSE /\ snapshot' = snapshot
                    /\ probePc' = "pgrep"
    /\ UNCHANGED <<config, run, mainPc, pc, table, passwd, globals, log,
                   probeAfterBoot, seen>>

\* subprocess.run raises (pgrep cannot be executed): the except clause
\* returns the error dictionary.
PgrepRaises ==
    /\ probePc = "pgrep"
    /\ snapshot' = ErrorDict
    /\ probePc' = "idle"
    /\ UNCHANGED <<config, run, mainPc, pc, table, passwd, globals, log,
                   probeRc, probeAfterBoot, seen>>

\* ----------------------------------------------------- the specification --
Bootstrap ==
    \/ Reap
    \/ Sleep
    \/ SpawnOk
    \/ SpawnFails
    \/ Settle
    \/ OpenPasswd
    \/ WritePasswd
    \/ ChmodPasswd

Probe ==
    \/ ApiStatus
    \/ Pgrep
    \/ PgrepRaises

\* What one lifetime of the orchestrator does to the machine, requests apart.
Lifetime ==
    \/ MainStartThread
    \/ MainServe
    \/ Bootstrap
    \/ KillTakesEffect
    \/ ProcessExit

\* One lifetime of the orchestrator, serving status requests.
Next ==
    \/ Lifetime
    \/ Probe

Spec == Init /\ [][Next]_vars

\* Successive lifetimes on the same machine.
NextRerun ==
    \/ Lifetime
    \/ Restart

\* The first lifetime starts on a fresh machine with the default environment.
InitFresh == Init /\ config = DefaultConfig /\ passwd = NoFile

SpecRerun == InitFresh /\ [][NextRerun]_vars

\* One lifetime, requests apart, under any environment.
InitAnyEnv == Imported(Environments, {NoFile})

SpecAnyEnv == InitAnyEnv /\ [][Lifetime]_vars

\* One lifetime, requests apart, on a machine where an instance of one of the
\* reaped programs may be left over from before.
Stale(role) == Proc(RoleArgv(role, DefaultConfig), RoleEnv(role), 0)

StaleTables == {{}} \cup {{Stale(role)} : role \in {"Xvfb", "x11vnc", "websockify"}}

InitStale ==
    ImportedOn({DefaultConfig}, {NoFile}, StaleTables) /\ seen = {Unobserved}

NextStale ==
    \/ Lifetime
    \/ KillDenied

SpecStale == InitStale /\ [][NextStale]_vars

\* The same, whatever file is found in /tmp, the bootstrap thread being
\* scheduled again and again as long as it has a statement to run.  Nothing
\* is assumed of the kill commands and of the managed processes: they may
\* stay for ever.
InitFair ==
    ImportedOn({DefaultConfig}, InitFiles, StaleTables) /\ seen = {Unobserved}

SpecFair == InitFair /\ [][NextStale]_vars /\ WF_vars(Bootstrap)

\* One lifetime serving status requests on such a machine, the kill commands
\* taken in their two steps, and no managed process ending on its own.
NextSignalled ==
    \/ MainStartThread
    \/ MainServe
    \/ Bootstrap
    \/ PkillSignals
    \/ PkillExits
    \/ Probe

SpecSignalled == InitStale /\ [][NextSignalled]_vars

\* One lifetime serving status requests, with the tables that the lookups of
\* a request could have met recorded in seen.
InitObserved == ImportedOn({DefaultConfig}, {NoFile}, {{}}) /\ seen = {}

SpecObserved == InitObserved /\ [][Next]_vars

\* A harness that runs start_xvfb alone and probes once Xvfb is spawned: the
\* bootstrap stands still between the spawn of Xvfb and that of startxfce4.
OnlyXvfb ==
    /\ pc \in 1..Len(start_xvfb)
    /\ (Reap \/ Sleep \/ SpawnOk \/ SpawnFails \/ Settle)

ProbeXvfbOnly == Did("spawn", "Xvfb") /\ ApiStatus

NextXvfbOnly ==
    \/ MainStartThread
    \/ MainServe
    \/ OnlyXvfb
    \/ ProbeXvfbOnly
    \/ Pgrep
    \/ PgrepRaises
    \/ KillTakesEffect
    \/ ProcessExit

SpecXvfbOnly == Init /\ [][NextXvfbOnly]_vars

TypeOK ==
    /\ config \in Environments
    /\ run \in 1..MaxRuns
    /\ mainPc \in {"init", "sleep", "serving"}
    /\ pc \in {Died, NotStarted, Returned} \cup 1..Len(start_desktop_environment)
    /\ probePc \in {"idle", "pgrep"}
    /\ Len(probeRc) <= Len(ProbeNames)
    /\ probeAfterBoot \in BOOLEAN

\* ============================================================== claims ==
\* The order of the roles given by the specification of the launcher.
RoleOrder == <<"Xvfb", "startxfce4", "x11vnc", "websockify">>

IsAttempt(e) == e.ev \in {"spawn", "spawn_failed"}

Attempted(role) == Did("spawn", role) \/ Did("spawn_failed", role)

AllSpawned == \A role \in Roles : Did("spawn", role)

BootstrapEnded == pc \in {Returned, Died}

\* C1: within a bootstrap the roles are spawned in the order Xvfb,
\* startxfce4, x11vnc, websockify, and the spawn of a role comes only after
\* the settle delay of the role before it has elapsed.
C1_SpawnOrder ==
    \A i \in 2..Len(RoleOrder) :
        \A j \in 1..Len(log) :
            (IsAttempt(log[j]) /\ log[j].role = RoleOrder[i]) =>
                \E k \in 1..(j - 1) : log[k] = Event("settled", RoleOrder[i - 1])

C1_Witness == pc = Returned /\ AllSpawned

\* C2: a spawn that fails does not end the bootstrap: when the bootstrap is
\* over, the spawn of every role has been attempted, also after the spawn of
\* Xvfb failed.
C2_FailureDoesNotAbort ==
    BootstrapEnded => \A role \in Roles : Attempted(role)

\* What a dictionary says about a role.
HasEntry(s, role) ==
    /\ role \in DOMAIN RoleKey
    /\ RoleKey[role] \in DOMAIN s
    /\ s[RoleKey[role]] \in BOOLEAN

Reports(s, role) == HasEntry(s, role) /\ s[RoleKey[role]]

\* C3: a probe begun after a bootstrap that returned with its four spawns
\* done and its kill commands finished, and none of whose lookups failed,
\* reports every one of the four roles as running and ready as true.
C3_ReadyAfterBootstrap ==
    ( /\ probeAfterBoot
      /\ AllSpawned
      /\ IsStatus(snapshot)
      /\ \A i \in 1..Len(probeRc) : probeRc[i] # PgrepFatal ) =>
        /\ \A role \in Roles : Reports(snapshot, role)
        /\ snapshot.ready

\* The step in which check_desktop_status returns a status dictionary.
ProbeReturns == probePc = "pgrep" /\ probePc' = "idle" /\ IsStatus(snapshot')

\* C4: ready covers the four roles; in particular, the four roles having been
\* spawned, no probe returns ready as true at a moment when no startxfce4
\* process is running.
C4_ReadyNeedsWindowSession ==
    [][ (AllSpawned /\ ProbeReturns /\ snapshot'.ready)
            => Live("startxfce4") # {} ]_vars

\* C5: once a later lifetime's bootstrap has passed the settle delay of a
\* role, at most one process of that role is alive (looked at when every kill
\* command was started and has finished).
C5_OneInstanceAfterRerun ==
    \A role \in Roles :
        ( /\ run >= 2
          /\ Did("settled", role)
          /\ Events("reap_failed") = {}
          /\ \A p \in table : IsManaged(p) ) =>
            Cardinality(Live(role)) <= 1

\* C6: within a bootstrap, the spawn of a role comes after a call of the
\* reaper (pkill -9) for the same role.
C6_ReapBeforeSpawn ==
    \A j \in 1..Len(log) :
        IsAttempt(log[j]) =>
            \E k \in 1..(j - 1) :
                /\ log[k].ev \in {"reap", "reap_failed"}
                /\ log[k].role = log[j].role

\* C7: a probe one of whose lookups failed returns the error object, and a
\* status dictionary says false of a role only when the lookup for it ran and
\* matched no process.
C7_LookupFailureIsAnError ==
    /\ (snapshot # None /\ \E i \in 1..Len(probeRc) : probeRc[i] = PgrepFatal)
           => snapshot = ErrorDict
    /\ IsStatus(snapshot) =>
           \A i \in 1..Len(ProbeNames) :
               snapshot[RoleKey[ProbeNames[i]]] = FALSE => probeRc[i] = 1

\* C8: as long as no role has been spawned, a status dictionary says false of
\* every role and of ready.
C8_NothingSpawnedAllFalse ==
    (IsStatus(snapshot) /\ Events("spawn") = {}) =>
        \A key \in DOMAIN snapshot : snapshot[key] = FALSE

\* C9: a step of the probe leaves the process table, the four process globals
\* and the password file as they are; a process enters the table, a global or
\* the file changes only in a step of the bootstrap thread.
C9_ProbeReadOnly ==
    [][ /\ (prober' # prober) => UNCHANGED <<table, globals, passwd>>
        /\ (globals' # globals \/ passwd' # passwd \/ ~(table' \subseteq table))
               => (Running /\ pc' # pc) ]_vars

C9_Witness ==
    /\ IsStatus(snapshot)
    /\ snapshot.ready
    /\ passwd.exists
    /\ websockify_process # None

\* C10: after the password-file step of start_vnc_server the file exists,
\* holds exactly the configured secret and is accessible to its owner only.
PreLaunchDone == Did("cred_ok", "x11vnc") \/ Did("cred_error", "x11vnc")

C10_CredentialsArtifact ==
    PreLaunchDone =>
        /\ passwd.exists
        /\ passwd.content = config.VNC_PASSWORD
        /\ OwnerOnly(passwd.mode)

\* C11: the command line of Xvfb holds the configured resolution followed by
\* x24, the command line of x11vnc holds the configured port after -rfbport,
\* and the display given to startxfce4 (DISPLAY) and to x11vnc (-display) is
\* the one Xvfb was started on.
ArgAfter(argv, flag) ==
    argv[(CHOOSE i \in 1..(Len(argv) - 1) : argv[i] = flag) + 1]

HasArg(argv, arg) == \E i \in 1..Len(argv) : argv[i] = arg

C11_LaunchArguments ==
    /\ xvfb_process # None =>
           HasArg(xvfb_process.argv, config.RESOLUTION \o <<"x24">>)
    /\ x11vnc_process # None =>
           /\ HasArg(x11vnc_process.argv, <<"-rfbport">>)
           /\ ArgAfter(x11vnc_process.argv, <<"-rfbport">>) = config.VNC_PORT
           /\ ArgAfter(x11vnc_process.argv, <<"-display">>)
                  = xvfb_process.argv[2]
    /\ xfce_process # None =>
           <<"DISPLAY", xvfb_process.argv[2]>> \in xfce_process.env

C11_Witness == pc = Returned /\ AllSpawned /\ config = CustomConfig

\* The shape the specification gives the values: WIDTHxHEIGHT and a number.
Digits == {"0", "1", "2", "3", "4", "5", "6", "7", "8", "9"}

IsNumber(str) == Len(str) > 0 /\ \A i \in 1..Len(str) : str[i] \in Digits

WellFormedResolution(str) ==
    \E k \in 2..(Len(str) - 1) :
        /\ str[k] = "x"
        /\ IsNumber(SubSeq(str, 1, k - 1))
        /\ IsNumber(SubSeq(str, k + 1, Len(str)))

WellFormed(cfg) ==
    WellFormedResolution(cfg.RESOLUTION) /\ IsNumber(cfg.VNC_PORT)

\* C12: with a malformed resolution or port the orchestrator stops before it
\* spawns anything: no spawn of a role is ever attempted.
C12_MalformedConfigRejected ==
    ~WellFormed(config) => \A role \in Roles : ~Attempted(role)

\* C13: within a lifetime the bootstrap thread is started by __main__ and by
\* nothing else, and once it has been started it is never started again.
C13_StartedOnce ==
    [][ /\ (pc = NotStarted /\ pc' # NotStarted)
               => (pc' = 1 /\ mainPc = "init" /\ mainPc' = "sleep")
        /\ (pc # NotStarted /\ run' = run)
               => (pc' # NotStarted /\ (pc' = 1 => pc = 1)) ]_vars

C13_Witness == pc = Returned /\ IsStatus(snapshot) /\ probeAfterBoot

\* C14: a probe made between the spawn of Xvfb and the spawn of startxfce4,
\* none of whose lookups failed, returns Xvfb true, startxfce4 false, x11vnc
\* false, websockify false and ready false.
C14_PartialSnapshot ==
    ( /\ IsStatus(snapshot)
      /\ \A i \in 1..Len(probeRc) : probeRc[i] # PgrepFatal ) =>
        /\ Reports(snapshot, "Xvfb")
        /\ \A role \in Roles \ {"Xvfb"} :
               HasEntry(snapshot, role) /\ ~snapshot[RoleKey[role]]
        /\ ~snapshot.ready

\* C15: a reap that fails (nothing to kill, kill not permitted, kill command
\* not startable) is followed in the same bootstrap by the spawn attempt of
\* the same role: no bootstrap ends on a reap.
IsReap(e) == e.ev \in {"reap", "reap_failed"}

C15_FailedReapNonFatal ==
    \A j \in 1..Len(log) :
        IsReap(log[j]) =>
            /\ BootstrapEnded => Len(log) > j
            /\ Len(log) > j =>
                   IsAttempt(log[j + 1]) /\ log[j + 1].role = log[j].role

\* The kill command for Xvfb could not be started, the one for x11vnc found
\* nothing to kill, the one for websockify was denied (the stale websockify
\* outlived it); all three roles were spawned.
C15_Witness ==
    /\ pc = Returned
    /\ Did("reap_failed", "Xvfb") /\ Did("spawn", "Xvfb")
    /\ Did("reap", "x11vnc") /\ Did("spawn", "x11vnc")
    /\ Did("reap", "websockify") /\ Did("spawn", "websockify")
    /\ Stale("websockify") \in table
    /\ \A p \in table : IsManaged(p)

\* C16: whatever the outcome of the bootstrap, a status request made once it
\* is over, none of whose lookups failed, is answered with a dictionary that
\* says false of every role whose spawn failed.
C16_FailedRolesReportedFalse ==
    ( /\ probeAfterBoot
      /\ IsStatus(snapshot)
      /\ \A i \in 1..Len(probeRc) : probeRc[i] # PgrepFatal ) =>
        \A role \in Roles :
            Did("spawn_failed", role) =>
                HasEntry(snapshot, role) /\ ~snapshot[RoleKey[role]]

\* C17: the booleans of a returned status dictionary are the answers the
\* three lookups would have given on one and the same process table, a table
\* that existed between the start of the call and its return.
C17_SnapshotOfOneInstant ==
    ( /\ Unobserved \notin seen
      /\ probePc = "idle"
      /\ IsStatus(snapshot)
      /\ \A i \in 1..Len(probeRc) : probeRc[i] # PgrepFatal ) =>
        \E answers \in seen :
            \A i \in 1..Len(ProbeNames) :
                snapshot[RoleKey[ProbeNames[i]]] = answers[i]

\* C18: a lookup of the probe for a role, made after the kill command of the
\* role's reap has sent its signals and before the role is spawned, finds no
\* process: the probe reports the role as false.
C18_ReapCoversProbe ==
    [][ \A i \in 1..Len(ProbeNames) :
            ( /\ probePc = "pgrep"
              /\ Len(probeRc) = i - 1
              /\ Len(probeRc') = i
              /\ probeRc'[i] # PgrepFatal
              /\ Did("signalled", ProbeNames[i])
              /\ ~Attempted(ProbeNames[i]) )
                => probeRc'[i] = 1 ]_vars

\* C19: x11vnc is spawned only after the password file was written in this
\* bootstrap without error: once x11vnc is spawned, the write and the chmod
\* have succeeded, and the file named by -rfbauth exists, begins with the
\* configured secret and is accessible to its owner only.
HoldsSecret(f, cfg) ==
    /\ Len(f.content) >= Len(cfg.VNC_PASSWORD)
    /\ SubSeq(f.content, 1, Len(cfg.VNC_PASSWORD)) = cfg.VNC_PASSWORD

C19_CredentialsBeforeSpawn ==
    Did("spawn", "x11vnc") =>
        /\ Did("cred_ok", "x11vnc")
        /\ ArgAfter(x11vnc_process.argv, <<"-rfbauth">>) = password_file
        /\ passwd.exists
        /\ HoldsSecret(passwd, config)
        /\ OwnerOnly(passwd.mode)

\* C20: the port websockify forwards to (the port of its last argument,
\* host:port) is the port x11vnc was given after -rfbport, whatever VNC_PORT
\* is configured.
TargetPort(argv) == Tail(argv[Len(argv)])

C20_BridgeTargetsVncPort ==
    (x11vnc_process # None /\ websockify_process # None) =>
        TargetPort(websockify_process.argv)
            = ArgAfter(x11vnc_process.argv, <<"-rfbport">>)

C22_KillSparesNewInstance ==
    [][ \A k, p \in table :
            ( /\ IsKiller(k) /\ k.run = run
              /\ IsManaged(p) /\ p.run = run
              /\ KillTarget(k) = RoleOf(p) )
                => ~(k \notin table' /\ p \notin table') ]_vars

\* C23: in every state in which the password file holds the configured
\* secret, the file is accessible to its owner only.
C23_SecretNeverExposed ==
    (passwd.exists /\ HoldsSecret(passwd, config)) => OwnerOnly(passwd.mode)

====
